---------------------------- MODULE Spec2Model ----------------------------
(***************************************************************************)
(* A model of scripts/nap-download-gtfs.js: one run of main(), which       *)
(* loads the cache record, logs in with the password grant, negotiates the *)
(* download of the GTFS archive (HEAD, then GET, with conditional          *)
(* headers), recovers from a 401 by a refresh grant and then by a second   *)
(* password login, streams a changed archive to the destination file and   *)
(* writes the cache record.                                                *)
(*                                                                         *)
(* The run is single-threaded; it only suspends at an await.  Every action *)
(* below is the code that runs from the arrival of one awaited result up   *)
(* to the next await (or to the end of main).  The token endpoint, the     *)
(* resource endpoint and the file system are the environment: their        *)
(* answers are the inputs, drawn with \E from bounded sets.                *)
(*                                                                         *)
(* JavaScript values: a string is a TLA+ string, null and undefined are    *)
(* the value null, an object is a function from the keys it has to their   *)
(* values.  The model starts where main() is called, which the script does *)
(* only when NAP_USERNAME and NAP_PASSWORD are set (lines 25-28).  The     *)
(* write of the cache record (fs.writeFileSync, line 49) is taken to       *)
(* succeed.                                                                *)
(***************************************************************************)
EXTENDS Integers, Sequences, FiniteSets, TLC

VARIABLES
    pc,                 \* the await main is suspended at: "init", "token",
                        \* "head", "get", "stream", or the end "done" / "failed"
    stage,              \* the block of main that awaits: 1 = lines 282-301,
                        \* 2 = the refresh block 303-325, 3 = the re-login block 327-349
    cacheFile,          \* the content of .nap-cache.json on disk
    outFile,            \* the destination file: "untouched", "partial", "complete"
    cache,              \* main's const cache (line 269)
    conditionalHeaders, \* main's const conditionalHeaders (line 270)
    tok,                \* main's let tok
    dl,                 \* main's let dl
    h,                  \* downloadGtfs's const h of line 254, kept across the stream
    req,                \* the last request sent
    resp,               \* the status line (and token body) of the last response
    failure,            \* which throw ended the run
    trace,              \* history: the calls made so far, in order
    grants,             \* history: the TokenSets postToken returned, in order
    all401,             \* history: every resource response so far was a 401
    results,            \* history: the status of each result downloadGtfs returned
    cacheFile0          \* history: the cache file as it was before the run

vars == <<pc, stage, cacheFile, outFile, cache, conditionalHeaders, tok, dl, h,
          req, resp, failure, trace, grants, all401, results, cacheFile0>>

-----------------------------------------------------------------------------
(* Bounds *)

\* The number of distinct non-empty ETag values the server can send.
NumVals == 1

-----------------------------------------------------------------------------
(* JavaScript values *)

null == "<null>"

EmptyObj == [k \in {} |-> null]

\* o.k / o?.k : undefined (null here) for a key the object does not have
Get(o, k) == IF k \in DOMAIN o THEN o[k] ELSE null

\* the truthiness of a string-or-null value
Truthy(v) == v # null /\ v # ""

\* { ...a, ...b }
Spread(a, b) == [k \in DOMAIN a \cup DOMAIN b |-> IF k \in DOMAIN b THEN b[k] ELSE a[k]]

\* response.ok of fetch
Ok(status) == status \in 200..299

Count(s, e) == Cardinality({i \in 1..Len(s) : s[i] = e})

-----------------------------------------------------------------------------
(* Inputs *)

Val(i) == "v" \o ToString(i)

HeaderNames == {"etag", "last-modified", "expires", "age", "content-length"}

\* what Headers.get returns for each name: null for an absent header, else
\* its value; an ETag may be empty and has NumVals other values
ResponseHeaders ==
    { hd \in [HeaderNames -> {null, ""} \cup {Val(i) : i \in 1..NumVals}] :
         \A k \in HeaderNames \ {"etag"} : hd[k] \in {null, Val(1)} }

\* the headers of a response whose headers the run does not use
NoHeaders == [k \in HeaderNames |-> null]

\* the statuses the resource endpoint answers with
Statuses == {200, 304, 401, 403, 404, 405, 500, 501}

\* the statuses the token endpoint answers with
TokenStatuses == {200, 400}

\* a cache record a previous run wrote (all six keys), of an older version
\* (values "c0") or of the version the server has now (etag Val(1))
WrittenRecords ==
    { [etag |-> e, lastModified |-> l, expires |-> null, age |-> a,
       contentLength |-> null, checkedAt |-> "t0"] :
         e \in {null, "c0", Val(1)}, l \in {null, "c0"}, a \in {"c0"} }

\* a cache record edited by hand: empty, with an empty etag, with
\* lastModified alone, with a key the script does not know
EditedRecords == {EmptyObj, [etag |-> ""], [lastModified |-> "c0"],
                  [etag |-> "c0", note |-> "n"]}

CacheFiles ==
    { [kind |-> k, value |-> EmptyObj] : k \in {"missing", "unreadable", "malformed", "jsonnull"} }
    \cup { [kind |-> "json", value |-> r] : r \in WrittenRecords \cup EditedRecords }

\* the body of the n-th token response, parsed: no usable JSON (EmptyObj), or
\* an object whose access_token / refresh_token are null, empty or issued anew
TokenBodies(n) ==
    {EmptyObj} \cup
    [ {"access_token"} -> {null, "", "a" \o ToString(n)} ] \cup
    { [access_token |-> a, refresh_token |-> r] :
         a \in {null, "", "a" \o ToString(n)}, r \in {null, "", "r" \o ToString(n)} }

TokenResponses(n) == { [status |-> s, json |-> j] : s \in TokenStatuses, j \in TokenBodies(n) }

-----------------------------------------------------------------------------
(* The functions of the script *)

nowIso == "t1"

readCache(file) ==
    CASE file.kind = "missing"    -> EmptyObj        \* line 41
      [] file.kind = "unreadable" -> EmptyObj        \* readFileSync throws: line 44
      [] file.kind = "malformed"  -> EmptyObj        \* JSON.parse throws: line 44
      [] file.kind = "jsonnull"   -> EmptyObj        \* null || {}
      [] OTHER                    -> file.value

\* JSON.stringify keeps every key of the record (none is undefined)
writeCache(record) == [kind |-> "json", value |-> record]

OrNull(v) == IF Truthy(v) THEN v ELSE null

pickHeaders(hd) ==
    [ etag          |-> OrNull(hd["etag"]),
      lastModified  |-> OrNull(hd["last-modified"]),
      expires       |-> OrNull(hd["expires"]),
      age           |-> OrNull(hd["age"]),
      contentLength |-> OrNull(hd["content-length"]) ]

\* buildConditionalHeaders without the test of cache.etag
buildConditionalHeaders_Unguarded(c) ==
    LET h1 == [k \in {"If-None-Match"} |-> Get(c, "etag")]
        h2 == IF Truthy(Get(c, "lastModified"))
              THEN [k \in {"If-Modified-Since"} |-> c["lastModified"]] ELSE EmptyObj
    IN Spread(h1, h2)

\* buildConditionalHeaders with "else if" for lastModified
buildConditionalHeaders_ElseIf(c) ==
    IF Truthy(Get(c, "etag")) THEN [k \in {"If-None-Match"} |-> c["etag"]]
    ELSE IF Truthy(Get(c, "lastModified"))
         THEN [k \in {"If-Modified-Since"} |-> c["lastModified"]]
    ELSE EmptyObj

buildConditionalHeaders(c) ==
    LET h1 == IF Truthy(Get(c, "etag"))
              THEN [k \in {"If-None-Match"} |-> c["etag"]] ELSE EmptyObj
        h2 == IF Truthy(Get(c, "lastModified"))
              THEN [k \in {"If-Modified-Since"} |-> c["lastModified"]] ELSE EmptyObj
    IN Spread(h1, h2)

NoToken == [access_token |-> null, refresh_token |-> null, expires_in |-> null,
            token_type |-> null]

\* postToken without the test of res.ok
postToken_NoOkTest(res) ==
    IF ~Truthy(Get(res.json, "access_token"))
    THEN [error |-> "token_missing", tok |-> NoToken]
    ELSE [error |-> "none",
          tok |-> [access_token  |-> res.json["access_token"],
                   refresh_token |-> OrNull(Get(res.json, "refresh_token")),
                   expires_in    |-> Get(res.json, "expires_in"),
                   token_type    |-> IF Truthy(Get(res.json, "token_type"))
                                     THEN res.json["token_type"] ELSE "bearer"]]

\* postToken from the response on: the error thrown, or the TokenSet returned
postToken(res) ==
    IF ~Ok(res.status) THEN [error |-> "token_http", tok |-> NoToken]
    ELSE IF ~Truthy(Get(res.json, "access_token"))
         THEN [error |-> "token_missing", tok |-> NoToken]
    ELSE [error |-> "none",
          tok |-> [access_token  |-> res.json["access_token"],
                   refresh_token |-> OrNull(Get(res.json, "refresh_token")),
                   expires_in    |-> Get(res.json, "expires_in"),
                   token_type    |-> IF Truthy(Get(res.json, "token_type"))
                                     THEN res.json["token_type"] ELSE "bearer"]]

\* the request getTokenWithPassword sends
getTokenWithPassword ==
    [url |-> "token", method |-> "POST", bearer |-> null,
     extra |-> [grant_type |-> "password"]]

\* the request refreshAccessToken sends
refreshAccessToken(refreshToken) ==
    [url |-> "token", method |-> "POST", bearer |-> null,
     extra |-> [grant_type |-> "refresh_token", refresh_token |-> refreshToken]]

\* fetchGtfs that leaves the extra headers out of a GET
fetchGtfs_GetUnconditional(accessToken, method, extraHeaders) ==
    [url |-> "gtfs", method |-> method, bearer |-> accessToken,
     extra |-> IF method = "GET" THEN EmptyObj ELSE extraHeaders]

\* the request fetchGtfs sends
fetchGtfs(accessToken, method, extraHeaders) ==
    [url |-> "gtfs", method |-> method, bearer |-> accessToken, extra |-> extraHeaders]

NoRequest == [url |-> "none", method |-> "none", bearer |-> null, extra |-> EmptyObj]

NoResponse == [from |-> "none", status |-> 0, json |-> EmptyObj, headers |-> NoHeaders]

NoResult == [status |-> 0]

\* an Unauthorized result that says ok
Unauthorized_AsOk == [ok |-> TRUE, status |-> 401, notModified |-> FALSE]

\* a "not modified" result without the headers field
NotModified_NoHeaders(hs) == [ok |-> TRUE, status |-> 304, notModified |-> TRUE]

\* the results downloadGtfs returns
Unauthorized == [ok |-> FALSE, status |-> 401, notModified |-> FALSE]

NotModified(hs) == [ok |-> TRUE, status |-> 304, notModified |-> TRUE, headers |-> hs]

Modified(status, hs) == [ok |-> TRUE, status |-> status, notModified |-> FALSE, headers |-> hs]

\* the record main writes on a "not modified" result (lines 289, 312, 336)
NotModifiedRecord(c, d) == Spread(Spread(c, d.headers), [checkedAt |-> nowIso])

\* DownloadedRecord that merges over the cache as the "not modified" branch does
DownloadedRecord_MergeOverCache(c, d) == Spread(Spread(c, d.headers), [checkedAt |-> nowIso])

\* the record main writes after a download (lines 297, 320, 344)
DownloadedRecord(c, d) == Spread(d.headers, [checkedAt |-> nowIso])

\* main's test of a result (lines 285, 308, 332)
Succeeded(d) == d.ok /\ d.status # 401

\* Recovery without the re-login block after a refresh
Recovery_NoReloginAfterRefresh(st, d, t) ==
    IF st = 1 /\ d.status = 401 /\ Truthy(t.refresh_token) THEN "refresh"
    ELSE IF st = 1 /\ d.status = 401 THEN "relogin"
    ELSE "throw"

\* Recovery that goes straight to the re-login
Recovery_SkipRefresh(st, d, t) ==
    IF st \in {1, 2} /\ d.status = 401 THEN "relogin" ELSE "throw"

\* Recovery that logs in again after every 401
Recovery_ReloginAgain(st, d, t) ==
    IF st = 1 /\ d.status = 401 /\ Truthy(t.refresh_token) THEN "refresh"
    ELSE IF d.status = 401 THEN "relogin"
    ELSE "throw"

\* Recovery without the test of tok.refresh_token
Recovery_RefreshWithoutToken(st, d, t) ==
    IF st = 1 /\ d.status = 401 THEN "refresh"
    ELSE IF st \in {1, 2} /\ d.status = 401 THEN "relogin"
    ELSE "throw"

\* what main does with a result that did not succeed, in the block it is in
\* (lines 303, 327, 351)
Recovery(st, d, t) ==
    IF st = 1 /\ d.status = 401 /\ Truthy(t.refresh_token) THEN "refresh"
    ELSE IF st \in {1, 2} /\ d.status = 401 THEN "relogin"
    ELSE "throw"

\* HeadOutcome that takes a 403 for a rejected token, as a 401
HeadOutcome_ForbiddenAsUnauthorized(status) ==
    IF status = 401 \/ status = 403 THEN "unauthorized"
    ELSE IF status = 405 \/ status = 501 THEN "unsupported"
    ELSE IF status = 304 THEN "notModified"
    ELSE IF ~Ok(status) THEN "error"
    ELSE "continue"

\* HeadOutcome that falls back to the GET on a 401, as on a 405
HeadOutcome_UnauthorizedFallsBackToGet(status) ==
    IF status = 401 \/ status = 405 \/ status = 501 THEN "unsupported"
    ELSE IF status = 304 THEN "notModified"
    ELSE IF ~Ok(status) THEN "error"
    ELSE "continue"

\* HeadOutcome without the test for 304
HeadOutcome_No304Test(status) ==
    IF status = 401 THEN "unauthorized"
    ELSE IF status = 405 \/ status = 501 THEN "unsupported"
    ELSE IF ~Ok(status) THEN "error"
    ELSE "continue"

\* HeadOutcome without the test for 405 and 501
HeadOutcome_UnsupportedIsError(status) ==
    IF status = 401 THEN "unauthorized"
    ELSE IF status = 304 THEN "notModified"
    ELSE IF ~Ok(status) THEN "error"
    ELSE "continue"

\* downloadGtfs's reading of the HEAD status (lines 205, 206, 219, 223)
HeadOutcome(status) ==
    IF status = 401 THEN "unauthorized"
    ELSE IF status = 405 \/ status = 501 THEN "unsupported"
    ELSE IF status = 304 THEN "notModified"
    ELSE IF ~Ok(status) THEN "error"
    ELSE "continue"

\* GetOutcome without the test of res.ok
GetOutcome_NoOkTest(status) ==
    IF status = 401 THEN "unauthorized"
    ELSE IF status = 304 THEN "notModified"
    ELSE "download"

\* downloadGtfs's reading of the GET status (lines 237, 239, 249)
GetOutcome(status) ==
    IF status = 401 THEN "unauthorized"
    ELSE IF status = 304 THEN "notModified"
    ELSE IF ~Ok(status) THEN "error"
    ELSE "download"

\* the responses that differ for the run: the headers count where
\* downloadGtfs keeps them (a 304, a GET to download)
HeadResponses ==
    { r \in [status : Statuses, headers : ResponseHeaders] :
         HeadOutcome(r.status) = "notModified" \/ r.headers = NoHeaders }

GetResponses ==
    { r \in [status : Statuses, headers : ResponseHeaders] :
         GetOutcome(r.status) \in {"notModified", "download"} \/ r.headers = NoHeaders }

-----------------------------------------------------------------------------
(* The run *)

Init ==
    /\ pc = "init"
    /\ stage = 0
    /\ cacheFile \in CacheFiles
    /\ cacheFile0 = cacheFile
    /\ outFile = "untouched"
    /\ cache = EmptyObj
    /\ conditionalHeaders = EmptyObj
    /\ tok = NoToken
    /\ dl = NoResult
    /\ h = EmptyObj
    /\ req = NoRequest
    /\ resp = NoResponse
    /\ failure = "none"
    /\ trace = << >>
    /\ grants = << >>
    /\ all401 = TRUE
    /\ results = << >>

\* main, lines 269-282: load the cache, build the headers, send the login
MainStart ==
    /\ pc = "init"
    /\ cache' = readCache(cacheFile)
    /\ conditionalHeaders' = buildConditionalHeaders(cache')
    /\ req' = getTokenWithPassword
    /\ trace' = Append(trace, "password")
    /\ stage' = 1
    /\ pc' = "token"
    /\ UNCHANGED <<cacheFile, outFile, tok, dl, h, resp, failure, grants, all401, results, cacheFile0>>

\* main from the return of downloadGtfs with result d, the calls so far
\* being t, to its next await or its end (lines 284-351)
MainAfter(d, t) ==
    /\ dl' = d
    /\ results' = Append(results, d.status)
    /\ IF Succeeded(d)
       THEN /\ pc' = "done"
            /\ IF "headers" \in DOMAIN d
               THEN /\ cacheFile' = writeCache(IF d.notModified
                                               THEN NotModifiedRecord(cache, d)
                                               ELSE DownloadedRecord(cache, d))
                    /\ trace' = Append(t, "writeCache")
               ELSE /\ cacheFile' = cacheFile
                    /\ trace' = t
            /\ UNCHANGED <<stage, req, failure>>
       ELSE /\ cacheFile' = cacheFile
            /\ CASE Recovery(stage, d, tok) = "refresh" ->
                      /\ req' = refreshAccessToken(tok.refresh_token)
                      /\ trace' = Append(t, "refresh")
                      /\ stage' = 2
                      /\ pc' = "token"
                      /\ failure' = failure
                 [] Recovery(stage, d, tok) = "relogin" ->
                      /\ req' = getTokenWithPassword
                      /\ trace' = Append(t, "password")
                      /\ stage' = 3
                      /\ pc' = "token"
                      /\ failure' = failure
                 [] OTHER ->
                      /\ pc' = "failed"
                      /\ failure' = "last_status"
                      /\ trace' = t
                      /\ UNCHANGED <<req, stage>>

\* a token response arrives: postToken from line 97, then main calls
\* downloadGtfs, which sends the HEAD (line 203)
TokenResponse(res) ==
    /\ pc = "token"
    /\ resp' = [from |-> "token", status |-> res.status, json |-> res.json,
                headers |-> NoHeaders]
    /\ LET r == postToken(res) IN
       IF r.error # "none"
       THEN /\ pc' = "failed"
            /\ failure' = r.error
            /\ UNCHANGED <<tok, grants, req, trace>>
       ELSE /\ tok' = r.tok
            /\ grants' = Append(grants, r.tok)
            /\ req' = fetchGtfs(r.tok.access_token, "HEAD", conditionalHeaders)
            /\ trace' = trace \o <<"downloadGtfs", "HEAD">>
            /\ pc' = "head"
            /\ failure' = failure
    /\ UNCHANGED <<stage, cacheFile, outFile, cache, conditionalHeaders, dl, h,
                   all401, results, cacheFile0>>

\* downloadGtfs sends the GET (line 235)
SendGet ==
    /\ req' = fetchGtfs(tok.access_token, "GET", conditionalHeaders)
    /\ trace' = Append(trace, "GET")
    /\ pc' = "get"
    /\ UNCHANGED <<stage, cacheFile, dl, failure, results>>

Throw(what) ==
    /\ pc' = "failed"
    /\ failure' = what
    /\ UNCHANGED <<stage, cacheFile, dl, req, trace, results>>

\* the HEAD response arrives: downloadGtfs lines 205-235
HeadResponse(res) ==
    /\ pc = "head"
    /\ resp' = [from |-> "HEAD", status |-> res.status, json |-> EmptyObj,
                headers |-> res.headers]
    /\ all401' = (all401 /\ res.status = 401)
    /\ CASE HeadOutcome(res.status) = "unauthorized" -> MainAfter(Unauthorized, trace)
         [] HeadOutcome(res.status) = "unsupported" -> SendGet
         [] HeadOutcome(res.status) = "notModified" ->
                MainAfter(NotModified(pickHeaders(res.headers)), trace)
         [] HeadOutcome(res.status) = "error" -> Throw("head_failed")
         [] OTHER -> SendGet
    /\ UNCHANGED <<outFile, cache, conditionalHeaders, tok, h, grants, cacheFile0>>

\* the GET response arrives: downloadGtfs lines 237-264
GetResponse(res) ==
    /\ pc = "get"
    /\ resp' = [from |-> "GET", status |-> res.status, json |-> EmptyObj,
                headers |-> res.headers]
    /\ all401' = (all401 /\ res.status = 401)
    /\ CASE GetOutcome(res.status) = "unauthorized" ->
                MainAfter(Unauthorized, trace) /\ h' = h
         [] GetOutcome(res.status) = "notModified" ->
                MainAfter(NotModified(pickHeaders(res.headers)), trace) /\ h' = h
         [] GetOutcome(res.status) = "error" -> Throw("get_failed") /\ h' = h
         [] OTHER ->
                /\ h' = pickHeaders(res.headers)
                /\ pc' = "stream"
                /\ UNCHANGED <<stage, cacheFile, dl, req, trace, failure, results>>
    /\ UNCHANGED <<outFile, cache, conditionalHeaders, tok, grants, cacheFile0>>

\* the fetch of postToken (line 88) or of fetchGtfs (line 141) rejects (no
\* response at all): the error leaves main
FetchRejects ==
    /\ pc \in {"token", "head", "get"}
    /\ pc' = "failed"
    /\ failure' = "fetch_rejected"
    /\ UNCHANGED <<stage, cacheFile, outFile, cache, conditionalHeaders, tok, dl, h,
                   req, resp, trace, grants, all401, results, cacheFile0>>

\* pipeline that resolves whatever became of the copy
pipeline_ErrorsSwallowed(outcome) == "resolved"

\* how the promise of pipeline(...) settles (line 193)
pipeline(outcome) == IF outcome = "complete" THEN "resolved" ELSE "rejected"

\* the pipeline of downloadToFileWithProgress ends (line 193): the body is
\* all in the destination, or the copy broke off, or the destination could
\* not be opened; then downloadGtfs returns (line 265)
StreamEnd(outcome) ==
    /\ pc = "stream"
    /\ outFile' = CASE outcome = "complete"  -> "complete"
                    [] outcome = "truncated" -> "partial"
                    [] OTHER                 -> outFile
    /\ IF pipeline(outcome) = "resolved"
       THEN MainAfter(Modified(resp.status, h), Append(trace, "stream"))
       ELSE /\ pc' = "failed"
            /\ failure' = "stream"
            /\ trace' = Append(trace, "stream")
            /\ UNCHANGED <<stage, cacheFile, dl, req, results>>
    /\ UNCHANGED <<cache, conditionalHeaders, tok, h, resp, grants, all401, cacheFile0>>

\* one step of the run: the continuation of the await main is at
Next ==
    \/ pc = "init" /\ MainStart
    \/ pc = "token" /\ \E res \in TokenResponses(Count(trace, "password") + Count(trace, "refresh")) :
           TokenResponse(res)
    \/ pc = "head" /\ \E res \in HeadResponses : HeadResponse(res)
    \/ pc = "get" /\ \E res \in GetResponses : GetResponse(res)
    \/ FetchRejects
    \/ pc = "stream" /\ \E outcome \in {"complete", "truncated", "openfail"} : StreamEnd(outcome)

Spec == Init /\ [][Next]_vars

\* every await of the run settles: a request sent is answered or rejected,
\* a stream ends (lines 96, 148, 193)
FairSpec == Spec /\ WF_vars(Next)

-----------------------------------------------------------------------------
(* Properties *)

Terminal == pc \in {"done", "failed"}

Negotiations == Count(trace, "downloadGtfs")

\* the first token grant carried a refresh token
FirstGrantHasRefresh == Len(grants) >= 1 /\ Truthy(grants[1].refresh_token)

TokenFailed == failure \in {"token_http", "token_missing"}

\* C1: a run whose first grant carried a refresh token, whose resource
\* requests were all answered, with a 401, and whose refresh and re-login
\* grants were given ends Failed on the last-status error after exactly 3 negotiations;
\* no run makes a 4th negotiation.
C1_Persistent401FailsAfterThree ==
    /\ Negotiations <= 3
    /\ (Terminal /\ FirstGrantHasRefresh /\ all401 /\ ~TokenFailed
          /\ failure # "fetch_rejected")
          => (pc = "failed" /\ failure = "last_status" /\ dl.status = 401
              /\ Negotiations = 3 /\ results = <<401, 401, 401>>)

C1_Witness ==
    /\ pc = "failed" /\ failure = "last_status"
    /\ FirstGrantHasRefresh /\ all401 /\ Negotiations = 3

\* C2: when the first negotiation returned 401 and the token then held had
\* a refresh token, exactly one refresh call is made, and every password
\* login after the first comes after it.
C2_RefreshBeforeRelogin ==
    (Len(results) >= 1 /\ results[1] = 401 /\ FirstGrantHasRefresh)
       => /\ Count(trace, "refresh") = 1
          /\ \A i \in 2..Len(trace) :
                 trace[i] = "password" => \E j \in 1..(i - 1) : trace[j] = "refresh"

C2_Witness ==
    /\ FirstGrantHasRefresh /\ Len(results) >= 2 /\ results[1] = 401
    /\ Count(trace, "refresh") = 1 /\ Count(trace, "password") = 2

\* C3: in every run there is at most one refresh grant, at most two
\* password grants, and no more negotiations than token requests, so at
\* most three.
C3_RetryBudget ==
    /\ Count(trace, "refresh") <= 1
    /\ Count(trace, "password") <= 2
    /\ Negotiations <= Count(trace, "refresh") + Count(trace, "password")
    /\ Negotiations <= 3
    /\ Negotiations = Len(grants)

C3_Witness ==
    /\ Count(trace, "refresh") = 1 /\ Count(trace, "password") = 2 /\ Negotiations = 3
    /\ Terminal

\* the record on disk after the run wrote it
Persisted == cacheFile.value

ValidatorFields == {"etag", "lastModified", "expires", "age", "contentLength"}

\* the cache file is a record an earlier run wrote, with an etag
CachedByEarlierRun ==
    /\ cacheFile0.kind = "json" /\ cacheFile0.value \in WrittenRecords
    /\ Truthy(cacheFile0.value["etag"])

\* C4: after a "not modified" result whose response carried an Age header
\* and no ETag and no Last-Modified header, the record written has the
\* cached etag and lastModified, the new age and the new checkedAt.
C4_NotModifiedKeepsCachedValidators ==
    (pc = "done" /\ dl.notModified /\ CachedByEarlierRun
       /\ resp.headers["etag"] = null /\ resp.headers["last-modified"] = null
       /\ resp.headers["age"] # null)
      => /\ cacheFile.kind = "json"
         /\ Get(Persisted, "etag") = Get(cache, "etag")
         /\ Get(Persisted, "lastModified") = Get(cache, "lastModified")
         /\ Get(Persisted, "age") = resp.headers["age"]
         /\ Get(Persisted, "checkedAt") = nowIso

\* C5 as claimed: after a download the record written is the response's
\* validators merged over the cached record: a field the response supplies
\* has the new value, a field it does not supply keeps the cached value.
C5_DownloadMergesOverCache ==
    (pc = "done" /\ ~dl.notModified /\ CachedByEarlierRun)
      => /\ \A f \in ValidatorFields :
               Get(Persisted, f) = IF dl.headers[f] # null THEN dl.headers[f]
                                   ELSE Get(cache, f)
         /\ Get(Persisted, "checkedAt") = nowIso

\* C5 as amended: after a download the record written is exactly the
\* validators of the GET response and the new checkedAt: a field the
\* response supplies has the new value, a field it does not supply (or
\* supplies empty) is null, and no key of the cached record is kept.
C5_DownloadReplacesCache ==
    (pc = "done" /\ ~dl.notModified)
      => /\ cacheFile.kind = "json"
         /\ DOMAIN Persisted = ValidatorFields \cup {"checkedAt"}
         /\ Persisted["etag"]          = OrNull(resp.headers["etag"])
         /\ Persisted["lastModified"]  = OrNull(resp.headers["last-modified"])
         /\ Persisted["expires"]       = OrNull(resp.headers["expires"])
         /\ Persisted["age"]           = OrNull(resp.headers["age"])
         /\ Persisted["contentLength"] = OrNull(resp.headers["content-length"])
         /\ Persisted["checkedAt"]     = nowIso

C5_Witness ==
    /\ pc = "done" /\ ~dl.notModified
    /\ Get(cache, "etag") = "c0" /\ "note" \in DOMAIN cache
    /\ resp.headers["etag"] = null /\ resp.headers["age"] = Val(1)
    /\ Persisted["etag"] = null /\ Persisted["age"] = Val(1)

\* C6: the destination is opened or written only when the last response is
\* a GET with a 2xx status, and at most once in a run; while no negotiation
\* has got to a download, the destination is untouched.
C6_DestinationOnlyAfterGetSuccess ==
    /\ (outFile # "untouched" \/ Count(trace, "stream") > 0)
          => (resp.from = "GET" /\ resp.status \in 200..299)
    /\ Count(trace, "stream") <= 1
    /\ (pc # "stream" /\ failure # "stream"
          /\ \A i \in 1..Len(results) : results[i] \notin 200..299)
          => (outFile = "untouched" /\ Count(trace, "stream") = 0)

C6_Witness ==
    /\ pc = "done" /\ outFile = "complete" /\ Negotiations = 2

\* C7: a token error of the refresh grant does not end the run while the
\* password re-login is still unused.
C7_RefreshErrorIsCaught ==
    ~ ( /\ pc = "failed" /\ TokenFailed
        /\ Get(req.extra, "grant_type") = "refresh_token"
        /\ Count(trace, "password") = 1 )

\* the response to the initial login is the last response, and it is a
\* failure: not 2xx, or without an access_token
InitialLoginFailed ==
    /\ resp.from = "token"
    /\ Count(trace, "password") + Count(trace, "refresh") = 1
    /\ (resp.status \notin 200..299 \/ ~Truthy(Get(resp.json, "access_token")))

\* C8: when the initial login fails the run has failed and is over, with
\* the login as its only request and the cache record and the destination
\* as they were.
C8_InitialLoginFailureIsFatal ==
    InitialLoginFailed
      => /\ pc = "failed" /\ TokenFailed
         /\ trace = <<"password">>
         /\ grants = << >>
         /\ cacheFile = cacheFile0
         /\ outFile = "untouched"
         /\ ~ENABLED Next

C8_Witness ==
    /\ InitialLoginFailed /\ pc = "failed"
    /\ resp.status = 200 /\ failure = "token_missing"

HeadError ==
    /\ resp.from = "HEAD"
    /\ resp.status \notin 200..299 /\ resp.status \notin {401, 304, 405, 501}

GetError ==
    /\ resp.from = "GET"
    /\ resp.status \notin 200..299 /\ resp.status \notin {401, 304}

\* C9: after a HEAD or GET answered with an error status the run has
\* failed and is over: that request is its last call, and the cache record
\* is as it was.
C9_UpstreamErrorNotRetried ==
    (HeadError \/ GetError)
      => /\ pc = "failed"
         /\ failure = (IF HeadError THEN "head_failed" ELSE "get_failed")
         /\ trace[Len(trace)] = resp.from
         /\ Count(trace, "writeCache") = 0
         /\ cacheFile = cacheFile0
         /\ ~ENABLED Next

C9_Witness ==
    /\ HeadError /\ pc = "failed" /\ resp.status = 403 /\ Negotiations = 2

\* C10: when the cache file is missing, unreadable or malformed, the cache
\* is the empty record, the run goes on to the login, and no request
\* carries a conditional header.
C10_FailedCacheLoadIsEmpty ==
    (pc # "init" /\ cacheFile0.kind \in {"missing", "unreadable", "malformed"})
      => /\ cache = EmptyObj
         /\ conditionalHeaders = EmptyObj
         /\ trace[1] = "password"
         /\ (pc = "failed" => failure # "none" /\ Len(trace) >= 1)
         /\ (req.url = "gtfs" => req.extra = EmptyObj)

C10_Witness ==
    /\ cacheFile0.kind = "malformed" /\ req.url = "gtfs" /\ req.method = "GET"
    /\ req.extra = EmptyObj

\* the calls of the negotiation under way (or of the last one): the trace
\* after its last "downloadGtfs"
CurrentNegotiation ==
    LET starts == {i \in 1..Len(trace) : trace[i] = "downloadGtfs"}
        start  == CHOOSE i \in starts : \A j \in starts : j <= i
    IN IF starts = {} THEN << >> ELSE SubSeq(trace, start + 1, Len(trace))

\* C11: when a HEAD is answered 401, downloadGtfs has returned the
\* Unauthorized result and the negotiation holds no GET.
C11_Head401ReturnsUnauthorized ==
    (resp.from = "HEAD" /\ resp.status = 401)
      => /\ dl = [ok |-> FALSE, status |-> 401, notModified |-> FALSE]
         /\ Len(results) = Negotiations /\ results[Len(results)] = 401
         /\ pc \notin {"head", "get", "stream", "done"}
         /\ Count(CurrentNegotiation, "GET") = 0
         /\ req.method # "GET"

C11_Witness ==
    /\ resp.from = "HEAD" /\ resp.status = 401 /\ Negotiations = 2
    /\ pc = "token" /\ Count(trace, "GET") = 1

HeadUnsupported == resp.from = "HEAD" /\ resp.status \in {405, 501}

\* C13: after a HEAD answered 405 or 501 the GET is the next call of the
\* negotiation and nothing has failed but a fetch; and the answer to that
\* GET alone decides: a 2xx goes to the stream, a 304 ends the run
\* Unchanged, a 401 gives the Unauthorized result.
C13_HeadUnsupportedGoesToGet ==
    /\ [](HeadUnsupported
            => /\ CurrentNegotiation = <<"HEAD", "GET">>
               /\ req.method = "GET"
               /\ (pc = "get" \/ (pc = "failed" /\ failure = "fetch_rejected")))
    /\ [][(HeadUnsupported /\ pc = "get" /\ resp'.from = "GET")
            => /\ resp'.status \in 200..299 => pc' = "stream"
               /\ resp'.status = 304
                    => (pc' = "done" /\ dl'.notModified /\ outFile' = "untouched")
               /\ resp'.status = 401
                    => (dl' = [ok |-> FALSE, status |-> 401, notModified |-> FALSE]
                        /\ pc' \in {"token", "failed"})]_vars

C13_Witness ==
    /\ HeadUnsupported /\ resp.status = 405 /\ pc = "get"
    /\ req.method = "GET" /\ Negotiations = 2

\* the first token grant carried no refresh token
FirstGrantHasNoRefresh == Len(grants) >= 1 /\ ~Truthy(grants[1].refresh_token)

TokenRequests == Count(trace, "password") + Count(trace, "refresh")

\* the number of negotiations started after the second password login
NegotiationsAfterRelogin ==
    LET logins == {i \in 1..Len(trace) : trace[i] = "password"}
        second == CHOOSE i \in logins : \A j \in logins : j <= i
    IN Cardinality({i \in (second + 1)..Len(trace) : trace[i] = "downloadGtfs"})

\* C14: after a 401 with no refresh token, or after a 401 that followed the
\* refresh, the password login is sent once more and never a third time,
\* and one negotiation follows its grant; with no refresh token and every
\* answer a 401 the run ends Failed after two negotiations and no refresh.
C14_ReloginOnceThenRetryOnce ==
    /\ (Len(results) >= 1 /\ results[1] = 401 /\ FirstGrantHasNoRefresh)
          => (Count(trace, "refresh") = 0 /\ Count(trace, "password") = 2)
    /\ (Len(results) >= 2 /\ results[2] = 401 /\ FirstGrantHasRefresh)
          => (Count(trace, "refresh") = 1 /\ Count(trace, "password") = 2)
    /\ Count(trace, "password") <= 2
    /\ Count(trace, "password") = 2
          => /\ NegotiationsAfterRelogin <= 1
             /\ Len(grants) = TokenRequests => NegotiationsAfterRelogin = 1
    /\ (Terminal /\ FirstGrantHasNoRefresh /\ all401 /\ ~TokenFailed
          /\ failure # "fetch_rejected")
          => (pc = "failed" /\ failure = "last_status" /\ results = <<401, 401>>
              /\ Count(trace, "refresh") = 0 /\ Negotiations = 2)

C14_Witness ==
    /\ pc = "failed" /\ failure = "last_status" /\ FirstGrantHasNoRefresh
    /\ all401 /\ Count(trace, "refresh") = 0 /\ Count(trace, "password") = 2

\* C15: the cache record is written for a download only with the whole
\* body in the destination and after the stream; while the stream runs and
\* when it fails the cache record is as it was loaded, and a failed stream
\* fails the run.
C15_CacheWrittenAfterStream ==
    /\ (pc = "done" /\ ~dl.notModified)
          => /\ outFile = "complete"
             /\ Len(trace) >= 2
             /\ trace[Len(trace)] = "writeCache"
             /\ trace[Len(trace) - 1] = "stream"
    /\ pc = "stream" => (cacheFile = cacheFile0 /\ Count(trace, "writeCache") = 0)
    /\ outFile = "partial" => failure = "stream"
    /\ failure = "stream"
          => /\ pc = "failed"
             /\ cacheFile = cacheFile0
             /\ Count(trace, "writeCache") = 0
             /\ outFile \in {"partial", "untouched"}

C15_Witness ==
    /\ failure = "stream" /\ outFile = "partial" /\ pc = "failed"
    /\ resp.headers["etag"] = Val(1) /\ Get(cacheFile.value, "etag") = "c0"

\* the conditional headers hd are those of the record c: If-None-Match is
\* there exactly for a non-empty etag, If-Modified-Since exactly for a
\* non-empty lastModified, each with the value of the record
BuiltFrom(hd, c) ==
    /\ DOMAIN hd \subseteq {"If-None-Match", "If-Modified-Since"}
    /\ "If-None-Match" \in DOMAIN hd
          <=> ("etag" \in DOMAIN c /\ c["etag"] # null /\ c["etag"] # "")
    /\ "If-Modified-Since" \in DOMAIN hd
          <=> ("lastModified" \in DOMAIN c /\ c["lastModified"] # null
               /\ c["lastModified"] # "")
    /\ "If-None-Match" \in DOMAIN hd => hd["If-None-Match"] = c["etag"]
    /\ "If-Modified-Since" \in DOMAIN hd => hd["If-Modified-Since"] = c["lastModified"]

\* C16: once the cache is loaded, the conditional headers are those of the
\* loaded record, and they are what a resource request carries.
C16_ConditionalHeadersFromCache ==
    pc # "init"
      => /\ BuiltFrom(conditionalHeaders, cache)
         /\ req.url = "gtfs" => BuiltFrom(req.extra, cache)

C16_Witness ==
    /\ req.url = "gtfs"
    /\ DOMAIN req.extra = {"If-None-Match", "If-Modified-Since"}
    /\ req.extra["If-None-Match"] = Val(1) /\ req.extra["If-Modified-Since"] = "c0"

\* C17: a run whose requests all return ends Downloaded, Unchanged or
\* Failed, and never sends more than three token requests, three HEAD
\* requests or three GET requests.
C17_RunTerminatesWithinBudget ==
    /\ <>[](Terminal /\ ~ENABLED Next)
    /\ [](/\ TokenRequests <= 3
          /\ Count(trace, "HEAD") <= 3
          /\ Count(trace, "GET") <= 3
          /\ Terminal => (pc = "done" <=> failure = "none"))

C17_Witness ==
    /\ pc = "failed" /\ failure = "last_status"
    /\ TokenRequests = 3 /\ Count(trace, "HEAD") = 3 /\ Count(trace, "GET") = 3

\* C18: the conditional headers are those of the cache record as loaded at
\* the start of the run, whatever was written since; every resource
\* request, HEAD or GET, first or retried, carries them, and carries the
\* access token of the latest grant.
C18_SameHeadersLatestToken ==
    /\ pc # "init"
          => /\ cache = readCache(cacheFile0)
             /\ BuiltFrom(conditionalHeaders, readCache(cacheFile0))
    /\ req.url = "gtfs"
          => /\ req.extra = conditionalHeaders
             /\ Len(grants) = Negotiations
             /\ req.bearer = grants[Len(grants)].access_token
             /\ req.bearer = tok.access_token

C18_Witness ==
    /\ pc = "get" /\ req.method = "GET" /\ Negotiations = 3
    /\ req.extra = [k \in {"If-None-Match"} |-> "c0"]
    /\ req.bearer = "a3" /\ grants[1].access_token = "a1"

ThrownFailures ==
    {"token_http", "token_missing", "head_failed", "get_failed", "stream", "fetch_rejected"}

=============================================================================
